---- MODULE Spec2Model ----
(***************************************************************************)
(* TraceCleanupSolver: the cleanup pipeline controller.  A step-driven     *)
(* state machine that runs the untangle sub-solver, then minimizes turns   *)
(* trace by trace, then balances L/Z shapes trace by trace.                *)
(***************************************************************************)
EXTENDS Integers, Sequences, FiniteSets, TLC

\* ------------------------------------------------------------------ bounds
\* Longest input trace list (allTraces).
MaxTraces == 2
\* The sub-solver reports solved or failed at the latest on this step.
MaxSubSteps == 2

\* ------------------------------------------------------------ trace values
\* A point is <<x, y>>.
PX(p) == p[1]
PY(p) == p[2]

\* [(0,0),(0,1),(1,1),(1,0)]: an axis-aligned rectangle given by 4 points.
RectPath == << <<0, 0>>, <<0, 1>>, <<1, 1>>, <<1, 0>> >>
\* A 4-point Z: axis-aligned segments, not a rectangle.
ZeePath == << <<0, 0>>, <<1, 0>>, <<1, 1>>, <<2, 1>> >>
\* A 3-point L starting on another row.
EllPath == << <<0, 1>>, <<0, 2>>, <<1, 2>> >>

Paths == {RectPath, ZeePath, EllPath}

Nets == {"n1", "n2"}

\* The pair ids of the input, in input order; ForeignId is an id no input uses.
IdOf(i) == <<"t1", "t2", "t3", "t4">>[i]
ForeignId == "tx"

\* SolvedTracePath, restricted to the fields the controller reads.
MkTrace(id, net, path) ==
  [mspPairId |-> id, globalConnNetId |-> net, tracePath |-> path]

\* solverInput.allTraces: up to MaxTraces traces with pairwise distinct ids
\* (the i-th one is IdOf(i)); nets are opaque, so the first trace is on "n1".
InputTraceLists ==
  UNION { { [i \in 1..n |-> MkTrace(IdOf(i), nets[i], paths[i])] :
            nets \in {f \in [1..n -> Nets] : n = 0 \/ f[1] = "n1"},
            paths \in [1..n -> Paths] } : n \in 0..MaxTraces }

\* ----------------------------------------------------- Map<string, trace>
\* A JS Map keeps insertion order: a sequence of [key, value] entries with
\* pairwise distinct keys.
MapKeys(m) == { m[i].key : i \in 1..Len(m) }

MapHas(m, k) == k \in MapKeys(m)

MapIndex(m, k) == CHOOSE i \in 1..Len(m) : m[i].key = k

MapGet(m, k) == m[MapIndex(m, k)].value

\* Map.prototype.set: overwrite in place, or append a new entry.
MapSet(m, k, v) ==
  IF MapHas(m, k)
    THEN [m EXCEPT ![MapIndex(m, k)] = [key |-> k, value |-> v]]
    ELSE Append(m, [key |-> k, value |-> v])

\* Array.from(map.values())
MapValues(m) == [i \in 1..Len(m) |-> m[i].value]

\* new Map(traces.map((t) => [t.mspPairId, t]))
MapOfTraces(traces) ==
  LET acc[i \in 0..Len(traces)] ==
        IF i = 0 THEN << >>
        ELSE MapSet(acc[i - 1], traces[i].mspPairId, traces[i])
  IN acc[Len(traces)]

\* traces.map((e) => e.mspPairId)
IdsOf(traces) == [i \in 1..Len(traces) |-> traces[i].mspPairId]

IdSet(traces) == { traces[i].mspPairId : i \in 1..Len(traces) }

\* ------------------------------------------------ external collaborators
\* is4PointRectangle: exactly 4 points whose three segments alternate between
\* vertical and horizontal and whose ends close the fourth side.
is4PointRectangle(path) ==
  /\ Len(path) = 4
  /\ \/ /\ PX(path[1]) = PX(path[2]) /\ PY(path[2]) = PY(path[3])
        /\ PX(path[3]) = PX(path[4]) /\ PY(path[4]) = PY(path[1])
     \/ /\ PY(path[1]) = PY(path[2]) /\ PX(path[2]) = PX(path[3])
        /\ PY(path[3]) = PY(path[4]) /\ PX(path[4]) = PX(path[1])

\* The trace of `traces` with pair id `target`.
TraceWithId(traces, target) ==
  traces[CHOOSE i \in 1..Len(traces) : traces[i].mspPairId = target]

\* minimizeTurnsWithFilteredLabels({...input, targetMspConnectionPairId,
\* traces}): one replacement trace for the target id; newPath is the geometry
\* the transform computes.
minimizeTurnsWithFilteredLabels(traces, target, newPath) ==
  [TraceWithId(traces, target) EXCEPT !.tracePath = newPath]

\* balanceZShapes({...input, targetMspConnectionPairId, traces}).
balanceZShapes(traces, target, newPath) ==
  [TraceWithId(traces, target) EXCEPT !.tracePath = newPath]

\* Drop the i-th element of a sequence.
RemoveAt(seq, i) ==
  [j \in 1..(Len(seq) - 1) |-> IF j < i THEN seq[j] ELSE seq[j + 1]]

\* The trace sets UntangleTraceSubsolver.getOutput() may hold once it is
\* solved, for the snapshot it was built from: the snapshot itself, one path
\* rerouted, one trace missing, one trace under another pair id, or one more
\* trace.
SubSolverOutputs(allTraces) ==
  {allTraces}
  \cup { [allTraces EXCEPT ![i].tracePath = p] :
         i \in 1..Len(allTraces), p \in Paths }
  \cup { RemoveAt(allTraces, i) : i \in 1..Len(allTraces) }
  \cup { [allTraces EXCEPT ![i].mspPairId = ForeignId] : i \in 1..Len(allTraces) }
  \cup { Append(allTraces, MkTrace(ForeignId, "n1", ZeePath)) }

\* new UntangleTraceSubsolver({...input, allTraces})
NewUntangleTraceSubsolver(allTraces) ==
  [allTraces |-> allTraces, iterations |-> 0]

SubOutcomes == {"running", "solved", "failed"}

\* What one activeSubSolver.step() may report: it must end by MaxSubSteps.
SubStepChoices(sub) ==
  { o \in [outcome : SubOutcomes, output : SubSolverOutputs(sub.allTraces)] :
      /\ (o.outcome = "running" => sub.iterations + 1 < MaxSubSteps)
      /\ (o.outcome # "solved" => o.output = sub.allTraces) }

\* ----------------------------------------------------- TraceCleanupSolver
Null == << >>
Some(x) == <<x>>

\* What one step() call has done so far: sub-solver steps run, transforms
\* invoked, sub-solvers instantiated.
NoWork == [subSteps |-> 0, transforms |-> 0, created |-> 0]

\* constructor(solverInput)
NewTraceCleanupSolver(allTraces) ==
  [ input            |-> allTraces,
    outputTraces     |-> allTraces,
    tracesMap        |-> MapOfTraces(allTraces),
    traceIdQueue     |-> IdsOf(allTraces),
    pipelineStep     |-> "untangling_traces",
    activeTraceId    |-> Null,
    activeSubSolver  |-> Null,
    solved           |-> FALSE,
    failed           |-> FALSE,
    error            |-> "none",
    work             |-> NoWork ]

\* Faulty variant: the phase is not advanced when the output is adopted.
AdoptSubSolverOutput_StaysUntangling(s, output) ==
  [s EXCEPT !.outputTraces = output,
            !.tracesMap = MapOfTraces(output),
            !.activeSubSolver = Null]

\* Faulty variant: the output is adopted but the map is not rebuilt.
AdoptSubSolverOutput_KeepsMap(s, output) ==
  [s EXCEPT !.outputTraces = output,
            !.activeSubSolver = Null,
            !.pipelineStep = "minimizing_turns"]

\* The sub-solver reported solved: adopt its output.
AdoptSubSolverOutput(s, output) ==
  [s EXCEPT !.outputTraces = output,
            !.tracesMap = MapOfTraces(output),
            !.activeSubSolver = Null,
            !.pipelineStep = "minimizing_turns"]

\* Faulty variant: the slot is left filled when the sub-solver fails.
DropFailedSubSolver_KeepsSlot(s) ==
  [s EXCEPT !.pipelineStep = "minimizing_turns"]

\* Faulty variant: a failed sub-solver is treated like a solved one with no output.
DropFailedSubSolver_AdoptsNothing(s) ==
  [s EXCEPT !.outputTraces = << >>,
            !.tracesMap = << >>,
            !.activeSubSolver = Null,
            !.pipelineStep = "minimizing_turns"]

\* The sub-solver reported failed: keep the trace set, move on.
DropFailedSubSolver(s) ==
  [s EXCEPT !.activeSubSolver = Null,
            !.pipelineStep = "minimizing_turns"]

\* _step with activeSubSolver set: one sub-solver step, then its outcome.
_stepActiveSubSolver(s, o) ==
  LET sub == [s.activeSubSolver[1] EXCEPT !.iterations = @ + 1]
      stepped == [s EXCEPT !.work.subSteps = @ + 1]
  IN CASE o.outcome = "solved" -> AdoptSubSolverOutput(stepped, o.output)
       [] o.outcome = "failed" -> DropFailedSubSolver(stepped)
       [] OTHER -> [stepped EXCEPT !.activeSubSolver = Some(sub)]

\* _runUntangleTracesStep
_runUntangleTracesStep(s) ==
  [s EXCEPT !.activeSubSolver =
              Some(NewUntangleTraceSubsolver(MapValues(s.tracesMap))),
            !.work.created = @ + 1]

\* Faulty variant: the queue is reseeded from the current trace set.
ReseedQueue_FromTracesMap(s) == IdsOf(MapValues(s.tracesMap))

\* Faulty variant: the queue is reseeded from the input and the current output.
ReseedQueue_BothRosters(s) == IdsOf(s.input) \o IdsOf(s.outputTraces)

\* The queue the balancing phase starts from.
ReseedQueue(s) == IdsOf(s.input)

\* Faulty variant: a missing trace is passed over without a fault.
MissingTrace_Ignored(popped) == popped

\* originalTrace is undefined: reading its tracePath throws.
MissingTrace(popped) == [popped EXCEPT !.error = "TypeError"]

\* Faulty variant: the map is rebuilt from the updated trace alone.
WriteBack_DropsOthers(m, target, updatedTrace) ==
  MapSet(<< >>, target, updatedTrace)

\* this.tracesMap.set(targetMspConnectionPairId, updatedTrace)
WriteBack(m, target, updatedTrace) == MapSet(m, target, updatedTrace)

\* _processTrace(step); newPath is the geometry the transform returns.
_processTrace(s, step, newPath) ==
  LET target == Head(s.traceIdQueue)
      popped == [s EXCEPT !.traceIdQueue = Tail(@),
                          !.activeTraceId = Some(target)]
  IN IF ~MapHas(s.tracesMap, target)
       THEN MissingTrace(popped)
     ELSE IF is4PointRectangle(MapGet(s.tracesMap, target).tracePath)
       THEN popped
     ELSE
       LET allTraces == MapValues(s.tracesMap)
           updatedTrace ==
             IF step = "minimizing_turns"
               THEN minimizeTurnsWithFilteredLabels(allTraces, target, newPath)
               ELSE balanceZShapes(allTraces, target, newPath)
           newMap == WriteBack(s.tracesMap, target, updatedTrace)
       IN [popped EXCEPT !.tracesMap = newMap,
                         !.outputTraces = MapValues(newMap),
                         !.work.transforms = @ + 1]

\* Faulty variant: the reseeding call goes on to process a trace.
_runMinimizeTurnsStep_FallsThrough(s, newPath) ==
  IF Len(s.traceIdQueue) = 0
    THEN LET reseeded == [s EXCEPT !.pipelineStep = "balancing_l_shapes",
                                   !.traceIdQueue = ReseedQueue(s)]
         IN IF Len(reseeded.traceIdQueue) = 0
              THEN reseeded
              ELSE _processTrace(reseeded, "balancing_l_shapes", newPath)
    ELSE _processTrace(s, "minimizing_turns", newPath)

\* _runMinimizeTurnsStep
_runMinimizeTurnsStep(s, newPath) ==
  IF Len(s.traceIdQueue) = 0
    THEN [s EXCEPT !.pipelineStep = "balancing_l_shapes",
                   !.traceIdQueue = ReseedQueue(s)]
    ELSE _processTrace(s, "minimizing_turns", newPath)

\* Faulty variant: the call that processes the last trace also sets solved.
_runBalanceLShapesStep_SolvesOnLast(s, newPath) ==
  IF Len(s.traceIdQueue) = 0
    THEN [s EXCEPT !.solved = TRUE]
    ELSE LET t == _processTrace(s, "balancing_l_shapes", newPath)
         IN IF Len(t.traceIdQueue) = 0 /\ t.error = "none"
              THEN [t EXCEPT !.solved = TRUE]
              ELSE t

\* _runBalanceLShapesStep
_runBalanceLShapesStep(s, newPath) ==
  IF Len(s.traceIdQueue) = 0
    THEN [s EXCEPT !.solved = TRUE]
    ELSE _processTrace(s, "balancing_l_shapes", newPath)

\* getOutput().traces
getOutput(s) == s.outputTraces

\* BaseSolver.step around _step: an exception thrown by _step marks the
\* solver failed and reaches the caller.
Surface(s) == IF s.error # "none" THEN [s EXCEPT !.failed = TRUE] ELSE s

\* What the collaborators answer during one step() call: the sub-solver's
\* report and output, and the geometry a transform returns.
StepInputs(s) ==
  IF s.activeSubSolver # Null
    THEN { [outcome |-> c.outcome, output |-> c.output, newPath |-> RectPath] :
           c \in SubStepChoices(s.activeSubSolver[1]) }
    ELSE { [outcome |-> "running", output |-> << >>, newPath |-> p] : p \in Paths }

\* _step
_step(s, o) ==
  IF s.activeSubSolver # Null
    THEN _stepActiveSubSolver(s, o)
  ELSE CASE s.pipelineStep = "untangling_traces" -> _runUntangleTracesStep(s)
         [] s.pipelineStep = "minimizing_turns" -> _runMinimizeTurnsStep(s, o.newPath)
         [] s.pipelineStep = "balancing_l_shapes" -> _runBalanceLShapesStep(s, o.newPath)

\* step(): nothing once solved or failed, else _step
step(s, o) ==
  IF s.solved \/ s.failed
    THEN s
    ELSE Surface(_step([s EXCEPT !.work = NoWork], o))

\* `${trace.globalConnNetId}-${Math.round(trace.tracePath[0].y * 100)}`
MergeKeyY(trace) == <<trace.globalConnNetId, "", PY(trace.tracePath[1]) * 100>>

\* The key of the second merge: by row when the ends share a row, else by column.
MergeKeyAxis(trace) ==
  LET isHorizontal ==
        PY(trace.tracePath[1]) = PY(trace.tracePath[Len(trace.tracePath)])
  IN IF isHorizontal
       THEN <<trace.globalConnNetId, "y", PY(trace.tracePath[1]) * 100>>
       ELSE <<trace.globalConnNetId, "x", PX(trace.tracePath[1]) * 100>>

\* One pass of a merge loop body: extend the entry under the key, or add a
\* copy of the trace.
MergeInto(merged, key, trace) ==
  IF MapHas(merged, key)
    THEN MapSet(merged, key,
           [MapGet(merged, key) EXCEPT
              !.tracePath = @ \o Tail(trace.tracePath)])
    ELSE MapSet(merged, key, trace)

\* First merge loop of visualize over outputTraces.
MergeSameRow(traces) ==
  LET acc[i \in 0..Len(traces)] ==
        IF i = 0 THEN << >>
        ELSE MergeInto(acc[i - 1], MergeKeyY(traces[i]), traces[i])
  IN MapValues(acc[Len(traces)])

\* Second merge loop of visualize.
MergeSameAxis(traces) ==
  LET acc[i \in 0..Len(traces)] ==
        IF i = 0 THEN << >>
        ELSE MergeInto(acc[i - 1], MergeKeyAxis(traces[i]), traces[i])
  IN MapValues(acc[Len(traces)])

\* One line per trace of outputTraces, the active trace in red.
TraceLines(s) ==
  [i \in 1..Len(s.outputTraces) |->
     [points |-> s.outputTraces[i].tracePath,
      strokeColor |-> IF Some(s.outputTraces[i].mspPairId) = s.activeTraceId
                        THEN "red" ELSE "blue"]]

\* The outputTraces visualize() leaves behind.
VisualizeOutputTraces(s) == MergeSameAxis(MergeSameRow(s.outputTraces))

\* Faulty variant: no delegation to the active sub-solver.
visualize_NeverDelegates(s) ==
  [graphics |-> [by |-> "TraceCleanupSolver", lines |-> TraceLines(s)],
   solver |-> [s EXCEPT !.outputTraces = VisualizeOutputTraces(s)]]

\* Faulty variant: the merge extends the stored trace objects themselves, so
\* the traces of tracesMap take the merged paths.
visualize_MergesInPlace(s) ==
  IF s.activeSubSolver # Null
    THEN [graphics |-> [by |-> "activeSubSolver", lines |-> << >>],
          solver |-> s]
    ELSE LET merged == VisualizeOutputTraces(s)
             Stored(e) ==
               IF e.key \in IdSet(merged)
                 THEN [e EXCEPT !.value = TraceWithId(merged, e.key)]
                 ELSE e
         IN [graphics |-> [by |-> "TraceCleanupSolver", lines |-> TraceLines(s)],
             solver |-> [s EXCEPT !.outputTraces = merged,
                                  !.tracesMap =
                                    [i \in 1..Len(s.tracesMap) |-> Stored(s.tracesMap[i])]]]

\* visualize(): the scene returned and the solver afterwards.
visualize(s) ==
  IF s.activeSubSolver # Null
    THEN [graphics |-> [by |-> "activeSubSolver", lines |-> << >>],
          solver |-> s]
    ELSE [graphics |-> [by |-> "TraceCleanupSolver", lines |-> TraceLines(s)],
          solver |-> [s EXCEPT !.outputTraces = VisualizeOutputTraces(s)]]

\* ------------------------------------------------------------------ state
VARIABLES
  solver,        \* the TraceCleanupSolver a driver steps and renders
  ref,           \* the same solver stepped alike but never rendered
  returned,      \* Some(value) returned by the last call, Null for step()
  calls,         \* what the last call did: operation, branch, pops
  rectAtStart,   \* the rectangle traces of tracesMap when the phase began
  visited,       \* per phase, the ids popped so far and what each pop did
  subOutcome,    \* how the sub-solver ended: "none" until it does
  steps,         \* step() calls made while neither solved nor failed
  subEndedAt,    \* the sub-solver step on which it ended, 0 until it does
  answer         \* what the collaborators answered in the last step() call

vars == <<solver, ref, returned, calls, rectAtStart, visited, subOutcome,
          steps, subEndedAt, answer>>

Phases == {"untangling_traces", "minimizing_turns", "balancing_l_shapes"}

PhaseRank(p) ==
  CASE p = "untangling_traces" -> 1
    [] p = "minimizing_turns" -> 2
    [] p = "balancing_l_shapes" -> 3

\* The rectangle traces of a map.
Rectangles(m) ==
  { m[i].value : i \in { j \in 1..Len(m) : is4PointRectangle(m[j].value.tracePath) } }

NoVisits == [minimizing_turns |-> << >>, balancing_l_shapes |-> << >>]

Init ==
  /\ \E allTraces \in InputTraceLists :
       /\ solver = NewTraceCleanupSolver(allTraces)
       /\ ref = NewTraceCleanupSolver(allTraces)
  /\ returned = Null
  /\ calls = [op |-> "constructor", branch |-> "none"]
  /\ rectAtStart = Rectangles(solver.tracesMap)
  /\ visited = NoVisits
  /\ subOutcome = "none"
  /\ steps = 0
  /\ subEndedAt = 0
  /\ answer = Null

\* Whether this step() call pops an id off the queue.
Pops(s) ==
  /\ s.activeSubSolver = Null
  /\ s.pipelineStep \in {"minimizing_turns", "balancing_l_shapes"}
  /\ Len(s.traceIdQueue) > 0

\* What a pop did with its id.
Attempt(s, t) ==
  IF t.error # "none" \/ ~MapHas(s.tracesMap, Head(s.traceIdQueue)) THEN "threw"
  ELSE IF is4PointRectangle(MapGet(s.tracesMap, Head(s.traceIdQueue)).tracePath)
    THEN "skipped"
  ELSE "transformed"

\* The branch of _step a call takes.
Branch(s) ==
  IF s.activeSubSolver # Null THEN "activeSubSolver" ELSE s.pipelineStep

\* The part of the collaborators' answers a step() call consumed.
Consumed(s, t, o) ==
  IF s.activeSubSolver # Null
    THEN Some([outcome |-> o.outcome, output |-> o.output])
  ELSE IF t.work.transforms > 0
    THEN Some([newPath |-> o.newPath])
  ELSE Null

\* One step() call with the collaborators answering o.
Step(o) ==
  /\ ~solver.solved /\ ~solver.failed
  /\ solver' = step(solver, o)
  /\ ref' = step(ref, o)
  /\ returned' = Null
  /\ calls' = [op |-> "step", branch |-> Branch(solver)]
  /\ rectAtStart' = IF solver'.pipelineStep # solver.pipelineStep
                      THEN Rectangles(solver'.tracesMap)
                      ELSE rectAtStart
  /\ visited' = IF Pops(solver)
                  THEN [visited EXCEPT ![solver.pipelineStep] =
                          Append(@, [id |-> Head(solver.traceIdQueue),
                                     attempt |-> Attempt(solver, solver')])]
                  ELSE visited
  /\ subOutcome' = IF solver.activeSubSolver # Null /\ o.outcome # "running"
                     THEN o.outcome ELSE subOutcome
  /\ steps' = steps + 1
  /\ subEndedAt' = IF solver.activeSubSolver # Null /\ o.outcome # "running"
                     THEN solver.activeSubSolver[1].iterations + 1
                     ELSE subEndedAt
  /\ answer' = Consumed(solver, solver', o)

\* step() in untangling_traces with an empty slot: create the sub-solver.
StepCreateSubSolver ==
  /\ solver.activeSubSolver = Null
  /\ solver.pipelineStep = "untangling_traces"
  /\ \E o \in StepInputs(solver) : Step(o)

\* step() with the sub-solver active.
StepSubSolver ==
  /\ solver.activeSubSolver # Null
  /\ \E o \in StepInputs(solver) : Step(o)

\* step() in minimizing_turns.
StepMinimizeTurns ==
  /\ solver.activeSubSolver = Null
  /\ solver.pipelineStep = "minimizing_turns"
  /\ \E o \in StepInputs(solver) : Step(o)

\* step() in balancing_l_shapes.
StepBalanceLShapes ==
  /\ solver.activeSubSolver = Null
  /\ solver.pipelineStep = "balancing_l_shapes"
  /\ \E o \in StepInputs(solver) : Step(o)

\* visualize() called by the driver between steps.
Visualize ==
  /\ solver' = visualize(solver).solver
  /\ returned' = Some(visualize(solver).graphics)
  /\ calls' = [op |-> "visualize", branch |-> Branch(solver)]
  /\ answer' = Null
  /\ UNCHANGED <<ref, rectAtStart, visited, subOutcome, steps, subEndedAt>>

StepNext ==
  \/ StepCreateSubSolver
  \/ StepSubSolver
  \/ StepMinimizeTurns
  \/ StepBalanceLShapes

Next ==
  \/ StepNext
  \/ Visualize

\* Any interleaving of step() and visualize() calls.
Spec == Init /\ [][Next]_vars

\* A driver that keeps calling step() while it does anything.
FairSpec == Init /\ [][Next]_vars /\ WF_vars(StepNext)

\* step() calls only.
StepSpec == Init /\ [][StepNext]_vars

\* step() calls only, by a driver that keeps calling.
FairStepSpec == Init /\ [][StepNext]_vars /\ WF_vars(StepNext)

\* ----------------------------------------------------------------- claims
\* The ids a phase has popped, in order.
VisitedIds(ph) == [i \in 1..Len(visited[ph]) |-> visited[ph][i].id]

\* No id occurs twice in a sequence.
NoRepeat(seq) == \A i, j \in 1..Len(seq) : i # j => seq[i] # seq[j]

\* C1: under repeated step() calls, with the sub-solver ending after finitely
\* many steps, the controller never stops with a fault and eventually sets
\* solved = true.
C1_EventuallySolved ==
  /\ [](solver.error = "none" /\ ~solver.failed)
  /\ <>(solver.solved)

\* C2: after any sequence of step() calls the pair ids of getOutput().traces
\* are exactly the pair ids of the input allTraces.
C2_OutputIdsAreInputIds == IdSet(getOutput(solver)) = IdSet(solver.input)

\* C3: every step of a phase, the one that ends it included, leaves each trace
\* that was a 4-point rectangle when the phase began stored with that same
\* tracePath.
C3_RectanglesUntouched ==
  [][\A r \in rectAtStart :
       /\ MapHas(solver'.tracesMap, r.mspPairId)
       /\ MapGet(solver'.tracesMap, r.mspPairId).tracePath = r.tracePath]_vars

\* C4: within minimizing_turns and within balancing_l_shapes no id is popped
\* and processed more than once.
C4_AtMostOncePerPhase ==
  /\ NoRepeat(VisitedIds("minimizing_turns"))
  /\ NoRepeat(VisitedIds("balancing_l_shapes"))

\* C4 witness: both phases have popped two ids, one skipped as a rectangle
\* and one transformed.
C4_Witness ==
  /\ Len(visited["minimizing_turns"]) = 2
  /\ Len(visited["balancing_l_shapes"]) = 2
  /\ \E i, j \in 1..2 : /\ visited["balancing_l_shapes"][i].attempt = "skipped"
                        /\ visited["balancing_l_shapes"][j].attempt = "transformed"

\* C5: pipelineStep only moves untangling_traces -> minimizing_turns ->
\* balancing_l_shapes, one phase at a time; solved is set only from
\* balancing_l_shapes; balancing_l_shapes is entered only by a step that found
\* the queue empty; and no state past untangling_traces has a sub-solver.
C5_PhaseOrder ==
  /\ [](PhaseRank(solver.pipelineStep) >= 2 => solver.activeSubSolver = Null)
  /\ [][/\ PhaseRank(solver'.pipelineStep) \in
             {PhaseRank(solver.pipelineStep), PhaseRank(solver.pipelineStep) + 1}
        /\ (solver'.solved /\ ~solver.solved
              => solver.pipelineStep = "balancing_l_shapes")
        /\ (solver'.pipelineStep = "balancing_l_shapes"
              /\ solver.pipelineStep # "balancing_l_shapes"
              => solver.pipelineStep = "minimizing_turns"
                 /\ Len(solver.traceIdQueue) = 0)]_vars

\* C5 witness: a run through all three phases that ended solved.
C5_Witness ==
  /\ solver.solved
  /\ solver.pipelineStep = "balancing_l_shapes"
  /\ Len(visited["minimizing_turns"]) = 2
  /\ subOutcome = "solved"

\* C6: the step in which the sub-solver reports failed enters minimizing_turns
\* with tracesMap and getOutput().traces those of the initial input and raises
\* nothing, and the controller then reaches solved without a fault.
C6_FailedSubSolverIsSkipped ==
  /\ [][subOutcome = "none" /\ subOutcome' = "failed"
          => /\ solver'.pipelineStep = "minimizing_turns"
             /\ solver'.tracesMap = MapOfTraces(solver.input)
             /\ getOutput(solver') = solver.input
             /\ solver'.error = "none"]_vars
  /\ [](subOutcome = "failed" => solver.error = "none" /\ ~solver.failed)
  /\ (subOutcome = "failed" ~> solver.solved)

\* C6 witness: solved after a failed sub-solver, on a two-trace input.
C6_Witness ==
  /\ subOutcome = "failed"
  /\ solver.solved
  /\ Len(solver.input) = 2

\* What a driver compares after a run.
ResumeView(s) ==
  <<s.pipelineStep, s.traceIdQueue, s.tracesMap, s.solved, getOutput(s)>>

\* C7: a run paused for visualize()/getOutput() calls ends in the same state as
\* the run of the same step() calls without the pause.
C7_Resumable == ResumeView(solver) = ResumeView(ref)

\* C8: every identifier in traceIdQueue is a key of tracesMap.
C8_QueueIdsInMap ==
  \A i \in 1..Len(solver.traceIdQueue) :
    MapHas(solver.tracesMap, solver.traceIdQueue[i])

\* Every original id has had its one balancing attempt.
EachBalancedOnce ==
  /\ VisitedIds("balancing_l_shapes") = IdsOf(solver.input)
  /\ \A i \in 1..Len(visited["balancing_l_shapes"]) :
       visited["balancing_l_shapes"][i].attempt \in {"skipped", "transformed"}

\* C9: whatever trace set the sub-solver returned when it reported solved,
\* every original id gets exactly one balancing attempt, and solved is set
\* only after that.
C9_EveryOriginalIdBalanced ==
  /\ [](solver.solved => EachBalancedOnce)
  /\ [](NoRepeat(VisitedIds("balancing_l_shapes")))
  /\ (subOutcome = "solved" ~> EachBalancedOnce)

\* C10: getOutput().traces holds exactly the traces stored in tracesMap.
C10_OutputIsTraceSet == getOutput(solver) = MapValues(solver.tracesMap)

\* The last call was step() / visualize(), seen from the step that made it.
IsStepCall == calls'.op = "step" /\ steps' = steps + 1
IsVisualizeCall == calls'.op = "visualize" /\ returned' # Null

\* C11: a visualize() call leaves getOutput().traces as it was before the call.
C11_VisualizeKeepsOutput ==
  [][IsVisualizeCall => getOutput(solver') = getOutput(solver)]_vars

\* C12: while activeSubSolver is non-null, visualize() returns the
\* sub-solver's own visualization and leaves pipelineStep, traceIdQueue,
\* tracesMap and outputTraces unchanged.
C12_VisualizeDelegates ==
  [][IsVisualizeCall /\ solver.activeSubSolver # Null
       => /\ returned'[1].by = "activeSubSolver"
          /\ solver'.pipelineStep = solver.pipelineStep
          /\ solver'.traceIdQueue = solver.traceIdQueue
          /\ solver'.tracesMap = solver.tracesMap
          /\ solver'.outputTraces = solver.outputTraces]_vars

\* C12 witness: visualize() was just called with the sub-solver active on two
\* traces that the controller's own rendering would merge.
C12_Witness ==
  /\ calls.op = "visualize"
  /\ solver.activeSubSolver # Null
  /\ returned # Null
  /\ Len(solver.outputTraces) = 2
  /\ Len(VisualizeOutputTraces(solver)) = 1

\* C13: a minimizing_turns or balancing_l_shapes step that pops an id with no
\* tracesMap entry ends in a fault surfaced to the caller, invokes no
\* transform, leaves tracesMap as it was and does not count as an attempt.
C13_MissingIdIsFatal ==
  [][IsStepCall /\ Pops(solver)
       /\ ~MapHas(solver.tracesMap, Head(solver.traceIdQueue))
       => /\ solver'.error # "none"
          /\ solver'.failed
          /\ solver'.work.transforms = 0
          /\ solver'.tracesMap = solver.tracesMap
          /\ ~solver'.solved]_vars

\* C13 witness: a step has just popped an id the map does not hold.
C13_Witness ==
  /\ calls.op = "step"
  /\ solver.error = "TypeError"
  /\ solver.activeTraceId # Null
  /\ ~MapHas(solver.tracesMap, solver.activeTraceId[1])

\* C14: one step() call runs at most one sub-solver step or one transform,
\* never both; it moves pipelineStep by at most one phase; and a call that
\* runs a transform changes no phase, only shifts the queue, and neither
\* creates nor clears the sub-solver.
C14_OneUnitOfWork ==
  [][IsStepCall
       => /\ solver'.work.subSteps + solver'.work.transforms <= 1
          /\ PhaseRank(solver'.pipelineStep) - PhaseRank(solver.pipelineStep)
               \in {0, 1}
          /\ (solver'.work.transforms > 0
                => /\ solver'.pipelineStep = solver.pipelineStep
                   /\ solver'.traceIdQueue = Tail(solver.traceIdQueue)
                   /\ solver'.work.created = 0
                   /\ solver'.activeSubSolver = solver.activeSubSolver)]_vars

\* C14 witness: the last step() ran one transform in balancing_l_shapes.
C14_Witness ==
  /\ calls.op = "step"
  /\ calls.branch = "balancing_l_shapes"
  /\ solver.work.transforms = 1

\* s is a prefix of t.
IsPrefix(s, t) == Len(s) <= Len(t) /\ \A i \in 1..Len(s) : s[i] = t[i]

\* C15: the ids popped in minimizing_turns follow the input order of
\* allTraces, those popped in balancing_l_shapes follow that order again, and
\* the step that switches to balancing_l_shapes reseeds the queue with the
\* input id list.
C15_InputOrderTwice ==
  /\ [](IsPrefix(VisitedIds("minimizing_turns"), IdsOf(solver.input)))
  /\ [](IsPrefix(VisitedIds("balancing_l_shapes"), IdsOf(solver.input)))
  /\ [](solver.pipelineStep = "balancing_l_shapes"
          => VisitedIds("minimizing_turns") = IdsOf(solver.input))
  /\ [](solver.solved => VisitedIds("balancing_l_shapes") = IdsOf(solver.input))
  /\ [][solver'.pipelineStep = "balancing_l_shapes"
          /\ solver.pipelineStep # "balancing_l_shapes"
          => solver'.traceIdQueue = IdsOf(solver.input)]_vars

\* C15 witness: solved on two traces after the sub-solver returned a third.
C15_Witness ==
  /\ solver.solved
  /\ Len(solver.input) = 2
  /\ MapHas(solver.tracesMap, ForeignId)
  /\ Len(visited["balancing_l_shapes"]) = 2

\* C16: a sub-solver is instantiated only by the first step(), which happens
\* in untangling_traces; the slot is filled only in untangling_traces; it is
\* cleared by the step in which the sub-solver ends and stays empty.
C16_SlotLifecycle ==
  /\ [](solver.activeSubSolver # Null
          => solver.pipelineStep = "untangling_traces")
  /\ [](subOutcome # "none" => solver.activeSubSolver = Null)
  /\ [][IsStepCall
          => /\ (solver'.work.created > 0
                   => /\ steps = 0
                      /\ solver'.work.created = 1
                      /\ solver.pipelineStep = "untangling_traces")
             /\ (solver.activeSubSolver = Null /\ solver'.activeSubSolver # Null
                   => solver'.work.created = 1)
             /\ (steps = 0 => solver'.activeSubSolver # Null)
             /\ (subOutcome = "none" /\ subOutcome' # "none"
                   => solver'.activeSubSolver = Null)]_vars

\* C16 witness: solved, the one sub-solver having run two steps.
C16_Witness ==
  /\ solver.solved
  /\ subEndedAt = 2
  /\ solver.activeSubSolver = Null

\* C17: the step in which the sub-solver reports solved makes tracesMap the
\* map of its output by mspPairId and getOutput().traces its output, leaves
\* traceIdQueue alone, clears the slot and enters minimizing_turns.
C17_SolvedOutputAdopted ==
  [][IsStepCall /\ solver.activeSubSolver # Null /\ answer'[1].outcome = "solved"
       => /\ solver'.tracesMap = MapOfTraces(answer'[1].output)
          /\ getOutput(solver') = answer'[1].output
          /\ solver'.traceIdQueue = solver.traceIdQueue
          /\ solver'.activeSubSolver = Null
          /\ solver'.pipelineStep = "minimizing_turns"]_vars

\* C17 witness: the last step adopted an output that reroutes a trace.
C17_Witness ==
  /\ calls.op = "step"
  /\ calls.branch = "activeSubSolver"
  /\ subOutcome = "solved"
  /\ Len(solver.input) = 2
  /\ IdsOf(solver.outputTraces) = IdsOf(solver.input)
  /\ solver.outputTraces # solver.input

\* C18: a step that processes target T leaves the key set and every entry but
\* T's as they were; T's entry is the trace the transform returned, or is
\* unchanged on a rectangle skip.
C18_OnlyTargetEntryChanges ==
  [][IsStepCall /\ Pops(solver)
       /\ MapHas(solver.tracesMap, Head(solver.traceIdQueue))
       => LET T == Head(solver.traceIdQueue)
              old == MapGet(solver.tracesMap, T)
          IN /\ IdsOf(MapValues(solver'.tracesMap)) = IdsOf(MapValues(solver.tracesMap))
             /\ MapKeys(solver'.tracesMap) = MapKeys(solver.tracesMap)
             /\ Len(solver'.tracesMap) = Len(solver.tracesMap)
             /\ \A k \in MapKeys(solver.tracesMap) \ {T} :
                  MapGet(solver'.tracesMap, k) = MapGet(solver.tracesMap, k)
             /\ MapGet(solver'.tracesMap, T) =
                  IF is4PointRectangle(old.tracePath)
                    THEN old
                    ELSE [old EXCEPT !.tracePath = answer'[1].newPath]]_vars

\* C18 witness: the last step rewrote the second of two traces.
C18_Witness ==
  /\ calls.op = "step"
  /\ solver.work.transforms = 1
  /\ Len(solver.tracesMap) = 2
  /\ solver.activeTraceId = Some(solver.tracesMap[2].key)
  /\ solver.tracesMap[2].value.tracePath # solver.input[2].tracePath

\* C19: with N input traces and the sub-solver ending on its K-th step, solved
\* becomes true on step() call 2N + K + 3 and not before.
C19_ExactStepCount ==
  /\ solver.solved => steps = 2 * Len(solver.input) + subEndedAt + 3
  /\ (subOutcome # "none" /\ ~solver.solved
        => steps < 2 * Len(solver.input) + subEndedAt + 3)

\* C19 witness: solved on call 9, for two traces and a sub-solver that ended
\* on its second step.
C19_Witness ==
  /\ solver.solved
  /\ Len(solver.input) = 2
  /\ subEndedAt = 2
  /\ steps = 9

\* C20: a visualize() call leaves pipelineStep, traceIdQueue, tracesMap,
\* activeSubSolver and solved unchanged.
C20_VisualizeKeepsPipelineState ==
  [][IsVisualizeCall
       => /\ solver'.pipelineStep = solver.pipelineStep
          /\ solver'.traceIdQueue = solver.traceIdQueue
          /\ solver'.tracesMap = solver.tracesMap
          /\ solver'.activeSubSolver = solver.activeSubSolver
          /\ solver'.solved = solver.solved]_vars

\* C20 witness: visualize() has just merged two output traces into one while
\* tracesMap still holds both.
C20_Witness ==
  /\ calls.op = "visualize"
  /\ solver.activeSubSolver = Null
  /\ Len(solver.tracesMap) = 2
  /\ Len(solver.outputTraces) = 1

====
